---- MODULE Spec2Model ----
(***************************************************************************)
(* Model of Dashbaord.py: the Adidas sales dashboard script.  One run of   *)
(* the script is load_data -> sidebar filters -> apply filters -> KPI      *)
(* cards and the six groupby/sum summaries.  Streamlit re-executes the     *)
(* script top to bottom on every interaction (Rerun).                      *)
(*                                                                         *)
(* Representation.  A DataFrame is a record [columns, rows]; a row is a    *)
(* function from column name to cell.  Text cells are sequences of         *)
(* character codes so that Python's string order (lexicographic by code    *)
(* point) can be computed; a missing text cell (NaN) is the empty          *)
(* sequence.  Timestamps are ticks since 2023-01-01 00:00, TicksPerDay     *)
(* ticks to a day; a missing timestamp is NaT.                             *)
(***************************************************************************)
EXTENDS Integers, Sequences, FiniteSets, TLC

\* ------------------------------------------------------------------------
\* Bounds of the model
\* ------------------------------------------------------------------------
MaxRows == 3          \* longest free-form spreadsheet drawn from RowPool
MaxLoadRows == 2      \* longest spreadsheet drawn from LoadPool
MaxColumnRows == 2    \* longest spreadsheet that lacks a column
MaxCacheRows == 1     \* longest spreadsheet among the versions of a modified file
NumProducts == 11     \* products in the product-ranking spreadsheets
TicksPerDay == 2      \* resolution of a timestamp within one day

\* ------------------------------------------------------------------------
\* Text values and their order
\* ------------------------------------------------------------------------
NaN == << >>
NaT == -1
BadDate == -2         \* a date cell holding text that is not a date

RECURSIVE LexLess(_, _)
LexLess(s, t) ==
    IF t = << >> THEN FALSE
    ELSE IF s = << >> THEN TRUE
    ELSE IF Head(s) # Head(t) THEN Head(s) < Head(t)
    ELSE LexLess(Tail(s), Tail(t))

RECURSIVE SeqSum(_)
SeqSum(s) == IF s = << >> THEN 0 ELSE Head(s) + SeqSum(Tail(s))

\* ------------------------------------------------------------------------
\* Calendar: .dt.year, .dt.strftime("%b '%y"), .date()
\* ------------------------------------------------------------------------
IsLeap(y) == (y % 4 = 0 /\ y % 100 # 0) \/ y % 400 = 0

DaysInYear(y) == IF IsLeap(y) THEN 366 ELSE 365

DaysInMonth(y, m) ==
    CASE m \in {1, 3, 5, 7, 8, 10, 12} -> 31
      [] m \in {4, 6, 9, 11} -> 30
      [] OTHER -> IF IsLeap(y) THEN 29 ELSE 28

RECURSIVE YearFrom(_, _)
YearFrom(y, day) ==
    IF day < DaysInYear(y) THEN <<y, day>> ELSE YearFrom(y + 1, day - DaysInYear(y))

RECURSIVE MonthFrom(_, _, _)
MonthFrom(y, m, day) ==
    IF day < DaysInMonth(y, m) THEN m ELSE MonthFrom(y, m + 1, day - DaysInMonth(y, m))

DateOf(ts) == ts \div TicksPerDay

Midnight(day) == day * TicksPerDay

\* day 0 is 2023-01-01
YearDay(day) == YearFrom(2023, day)

YearOf(ts) == YearDay(DateOf(ts))[1]

MonthOf(ts) == LET yd == YearDay(DateOf(ts)) IN MonthFrom(yd[1], 1, yd[2])

\* %b in the C locale, as character codes
MonthAbbr(m) ==
    CASE m = 1 -> <<74, 97, 110>>      \* Jan
      [] m = 2 -> <<70, 101, 98>>      \* Feb
      [] m = 3 -> <<77, 97, 114>>      \* Mar
      [] m = 4 -> <<65, 112, 114>>     \* Apr
      [] m = 5 -> <<77, 97, 121>>      \* May
      [] m = 6 -> <<74, 117, 110>>     \* Jun
      [] m = 7 -> <<74, 117, 108>>     \* Jul
      [] m = 8 -> <<65, 117, 103>>     \* Aug
      [] m = 9 -> <<83, 101, 112>>     \* Sep
      [] m = 10 -> <<79, 99, 116>>     \* Oct
      [] m = 11 -> <<78, 111, 118>>    \* Nov
      [] OTHER -> <<68, 101, 99>>      \* Dec

\* "%b '%y": month abbreviation, space, apostrophe, two-digit year
MonthLabel(y, m) ==
    MonthAbbr(m) \o <<32, 39>> \o <<48 + ((y % 100) \div 10), 48 + (y % 10)>>

Strftime(ts) == IF ts = NaT THEN NaN ELSE MonthLabel(YearOf(ts), MonthOf(ts))

DtYear(ts) == IF ts = NaT THEN NaT ELSE YearOf(ts)

\* ------------------------------------------------------------------------
\* load_data
\* ------------------------------------------------------------------------
\* pd.to_datetime(column): raises on a cell that is not a date
ToDatetimeRaises(cells) == \E i \in 1..Len(cells) : cells[i] = BadDate

\* pd.to_datetime(cell, errors="coerce")
ToDatetimeCoerce(cell) == IF cell = BadDate THEN NaT ELSE cell

WithColumn(r, name, value) ==
    [c \in (DOMAIN r) \cup {name} |-> IF c = name THEN value ELSE r[c]]

\* the branch of lines 100-103 taken for a column set
DateSource(cols) ==
    IF "Invoice Date" \in cols /\ "InvoiceDate" \notin cols THEN "Invoice Date"
    ELSE IF "InvoiceDate" \in cols THEN "InvoiceDate"
    ELSE "none"

\* does the load raise?  Only the legacy branch parses without errors="coerce"
LoadRaises(f) ==
    /\ DateSource(f.columns) = "Invoice Date"
    /\ ToDatetimeRaises([i \in 1..Len(f.rows) |-> f.rows[i]["Invoice Date"]])

CopyIfLegacy(r, cols, legacy, canonical) ==
    IF legacy \in cols /\ canonical \notin cols THEN WithColumn(r, canonical, r[legacy]) ELSE r

NormalizeRow(r, cols) ==
    LET src == DateSource(cols)
        r1 == IF src = "none" THEN r
              ELSE WithColumn(r, "InvoiceDate", ToDatetimeCoerce(r[src]))
        r2 == CopyIfLegacy(r1, cols, "Total Sales", "TotalSales")
        r3 == CopyIfLegacy(r2, cols, "Units Sold", "UnitsSold")
        r4 == CopyIfLegacy(r3, cols, "Sales Method", "SalesMethod")
        r5 == IF "InvoiceDate" \in DOMAIN r4
              THEN WithColumn(WithColumn(r4, "Year", DtYear(r4["InvoiceDate"])),
                              "Month_Year", Strftime(r4["InvoiceDate"]))
              ELSE r4
    IN r5

\* the columns of the frame load_data returns
LoadedColumns(cols) ==
    LET c1 == IF DateSource(cols) = "none" THEN cols ELSE cols \cup {"InvoiceDate"}
        c2 == IF "Total Sales" \in cols THEN c1 \cup {"TotalSales"} ELSE c1
        c3 == IF "Units Sold" \in cols THEN c2 \cup {"UnitsSold"} ELSE c2
        c4 == IF "Sales Method" \in cols THEN c3 \cup {"SalesMethod"} ELSE c3
    IN IF "InvoiceDate" \in c4 THEN c4 \cup {"Year", "Month_Year"} ELSE c4

load_data(f) ==
    [columns |-> LoadedColumns(f.columns),
     rows |-> [i \in 1..Len(f.rows) |-> NormalizeRow(f.rows[i], f.columns)]]

\* ------------------------------------------------------------------------
\* DataFrame helpers: boolean-mask selection, groupby/sum, sort_values
\* ------------------------------------------------------------------------
EmptyFrame == [columns |-> {}, rows |-> << >>]

\* df[col].dropna().unique()
UniqueValues(frame, col) ==
    {frame.rows[i][col] : i \in 1..Len(frame.rows)} \ {NaN}

\* df[df[col].isin(selected)]
IsinFilter(rows, col, selected) ==
    SelectSeq(rows, LAMBDA r : r[col] \in selected)

\* df[(df["InvoiceDate"] >= start) & (df["InvoiceDate"] < end)];
\* every comparison with NaT is False
BetweenFilter(rows, start, end) ==
    SelectSeq(rows, LAMBDA r : r["InvoiceDate"] # NaT
                               /\ r["InvoiceDate"] >= start
                               /\ r["InvoiceDate"] < end)

\* s reordered: before[i] is the set of indices that come ahead of index i
Permute(s, before) ==
    [k \in 1..Len(s) |->
        s[CHOOSE i \in 1..Len(s) : Cardinality(before[i]) = k - 1]]

\* the keys of a groupby, in the order groupby(sort=True) emits them
SortedKeys(keys) ==
    [k \in 1..Cardinality(keys) |->
        CHOOSE x \in keys : Cardinality({y \in keys : LexLess(y, x)}) = k - 1]

\* sum of a measure over the rows whose col is key
GroupSum(rows, col, key, measure) ==
    SeqSum([i \in 1..Len(rows) |-> IF rows[i][col] = key THEN rows[i][measure] ELSE 0])

\* df.groupby(col)[measures].sum().reset_index(): one row per non-missing key
\* (groupby drops missing keys), keys ascending
GroupBy1(rows, col, measures) ==
    LET keys == {rows[i][col] : i \in 1..Len(rows)} \ {NaN}
        ks == SortedKeys(keys)
    IN [k \in 1..Len(ks) |->
          [c \in {col} \cup measures |->
              IF c = col THEN ks[k] ELSE GroupSum(rows, col, ks[k], c)]]

PairLess(p, q) == LexLess(p[1], q[1]) \/ (p[1] = q[1] /\ LexLess(p[2], q[2]))

SortedPairs(keys) ==
    [k \in 1..Cardinality(keys) |->
        CHOOSE x \in keys : Cardinality({y \in keys : PairLess(y, x)}) = k - 1]

\* df.groupby([c1, c2])[measure].sum().reset_index()
GroupBy2(rows, c1, c2, measure) ==
    LET keys == {<<rows[i][c1], rows[i][c2]>> : i \in
                    {j \in 1..Len(rows) : rows[j][c1] # NaN /\ rows[j][c2] # NaN}}
        ks == SortedPairs(keys)
    IN [k \in 1..Len(ks) |->
          [c \in {c1, c2, measure} |->
              IF c = c1 THEN ks[k][1]
              ELSE IF c = c2 THEN ks[k][2]
              ELSE SeqSum([i \in 1..Len(rows) |->
                      IF rows[i][c1] = ks[k][1] /\ rows[i][c2] = ks[k][2]
                      THEN rows[i][measure] ELSE 0])]]

\* sort_values(col) with ascending=False left out
SortValuesAsc(s, col, tiesReversed) ==
    Permute(s, [i \in 1..Len(s) |->
        {j \in 1..Len(s) :
            \/ s[j][col] < s[i][col]
            \/ s[j][col] = s[i][col] /\ (IF tiesReversed THEN j > i ELSE j < i)}])

\* sort_values(col, ascending=False) on a numeric column.  The default
\* kind="quicksort" is not a stable sort: rows with equal values come out
\* in an order the numpy build decides; tiesReversed picks between the two
\* orders modelled (as grouped, or reversed).
SortValuesDesc(s, col, tiesReversed) ==
    Permute(s, [i \in 1..Len(s) |->
        {j \in 1..Len(s) :
            \/ s[j][col] > s[i][col]
            \/ s[j][col] = s[i][col] /\ (IF tiesReversed THEN j > i ELSE j < i)}])

\* sort_values(col) on a text column: Python string order
SortValuesText(s, col) ==
    Permute(s, [i \in 1..Len(s) |->
        {j \in 1..Len(s) :
            \/ LexLess(s[j][col], s[i][col])
            \/ s[j][col] = s[i][col] /\ j < i}])

\* .head(n) left out
HeadNAll(s, n) == s

\* .head(n)
HeadN(s, n) == IF Len(s) <= n THEN s ELSE SubSeq(s, 1, n)

\* ------------------------------------------------------------------------
\* Spreadsheets the model is run on
\* ------------------------------------------------------------------------
RECURSIVE DaysBeforeYear(_)
DaysBeforeYear(y) == IF y <= 2023 THEN 0 ELSE DaysInYear(y - 1) + DaysBeforeYear(y - 1)

RECURSIVE DaysBeforeMonth(_, _)
DaysBeforeMonth(y, m) == IF m <= 1 THEN 0 ELSE DaysInMonth(y, m - 1) + DaysBeforeMonth(y, m - 1)

\* the timestamp of calendar day y-m-d, tick ticks after midnight
Ts(y, m, d, tick) ==
    Midnight(DaysBeforeYear(y) + DaysBeforeMonth(y, m) + (d - 1)) + tick

RetailerA == <<65>>
RetailerB == <<66>>
West == <<87, 101, 115, 116>>
East == <<69, 97, 115, 116>>
Texas == <<84, 88>>
Ohio == <<79, 72>>
Austin == <<65, 117, 115>>
Dayton == <<68, 97, 121>>
Shoes == <<83, 104, 111, 101>>
Shirt == <<83, 104, 105, 114>>
Online == <<79, 110>>
Outlet == <<79, 117, 116>>

CanonicalCols ==
    {"Retailer", "Region", "State", "City", "Product", "SalesMethod",
     "InvoiceDate", "TotalSales", "UnitsSold"}

LegacyCols ==
    {"Retailer", "Region", "State", "City", "Product", "Sales Method",
     "Invoice Date", "Total Sales", "Units Sold"}

BothDateCols == CanonicalCols \cup {"Invoice Date"}

\* one spreadsheet row, restricted to the columns the sheet has; canon and
\* legacy are the cells of the "InvoiceDate" and "Invoice Date" columns
SheetRow(cols, retailer, sales, region, state, city, product, method, units, canon, legacy) ==
    [c \in cols |->
        CASE c = "Retailer" -> retailer
          [] c = "Region" -> region
          [] c = "State" -> state
          [] c = "City" -> city
          [] c = "Product" -> product
          [] c \in {"SalesMethod", "Sales Method"} -> method
          [] c \in {"TotalSales", "Total Sales"} -> sales
          [] c \in {"UnitsSold", "Units Sold"} -> units
          [] c = "InvoiceDate" -> canon
          [] OTHER -> legacy]

RowPool(cols) ==
    { SheetRow(cols, RetailerA, 100, West, Texas, Austin, Shoes, Online, 2,
               Ts(2024, 1, 15, 1), Ts(2024, 1, 15, 1)),
      SheetRow(cols, RetailerA, 50, East, Ohio, Dayton, Shirt, Outlet, 1,
               Ts(2024, 4, 10, 0), Ts(2024, 4, 10, 0)),
      SheetRow(cols, RetailerB, 200, West, Texas, Austin, Shoes, Online, 3,
               Ts(2023, 12, 31, 0), Ts(2023, 12, 31, 0)),
      SheetRow(cols, RetailerB, 30, West, Texas, NaN, Shirt, Online, 1,
               Ts(2024, 1, 16, 0), Ts(2024, 1, 16, 0)),
      SheetRow(cols, RetailerA, 7, East, Ohio, Dayton, Shoes, Outlet, 1,
               BadDate, BadDate) }

\* rows whose two date cells differ, for the column-naming conventions
LoadPool(cols) ==
    { SheetRow(cols, RetailerA, 100, West, Texas, Austin, Shoes, Online, 2,
               Ts(2024, 1, 15, 0), Ts(2023, 12, 31, 0)),
      SheetRow(cols, RetailerB, 50, West, Texas, Austin, Shoes, Online, 1,
               BadDate, Ts(2024, 4, 10, 0)),
      SheetRow(cols, RetailerB, 30, West, Texas, Austin, Shirt, Online, 1,
               Ts(2024, 4, 10, 0), BadDate),
      SheetRow(cols, RetailerA, 7, West, Texas, Austin, Shirt, Online, 1,
               NaT, NaT) }

SeqsUpTo(S, n) == UNION {[1..k -> S] : k \in 1..n}

\* the three-record example of the retailer summary
ExampleRows ==
    << SheetRow(CanonicalCols, RetailerA, 100, West, Texas, Austin, Shoes, Online, 2,
                Ts(2024, 1, 15, 1), Ts(2024, 1, 15, 1)),
       SheetRow(CanonicalCols, RetailerA, 50, East, Ohio, Dayton, Shirt, Outlet, 1,
                Ts(2024, 4, 10, 0), Ts(2024, 4, 10, 0)),
       SheetRow(CanonicalCols, RetailerB, 200, West, Texas, Austin, Shoes, Online, 3,
                Ts(2023, 12, 31, 0), Ts(2023, 12, 31, 0)) >>

\* "P01", "P02", ...
ProductName(i) == <<80, 48 + (i \div 10), 48 + (i % 10)>>

\* one record per product, every product selling 1 except those in high,
\* which sell 2; listed from the last product to the first when descending
ProductRows(high, descending) ==
    [k \in 1..NumProducts |->
        LET i == IF descending THEN NumProducts + 1 - k ELSE k
        IN SheetRow(CanonicalCols, RetailerA, IF i \in high THEN 2 ELSE 1, West, Texas,
                    Austin, ProductName(i), Online, 1,
                    Ts(2024, 1, 15, 0), Ts(2024, 1, 15, 0))]

\* the date widget needs a smallest and a largest date: the sheets used
\* either fail to load or hold at least one valid date
Usable(f) ==
    \/ LoadRaises(f)
    \/ DateSource(f.columns) = "none"
    \/ \E i \in 1..Len(f.rows) : load_data(f).rows[i]["InvoiceDate"] # NaT

MainFiles ==
    {f \in {[columns |-> CanonicalCols, rows |-> rs] :
                rs \in SeqsUpTo(RowPool(CanonicalCols), MaxRows) \cup {ExampleRows}} :
        Usable(f)}

LoadFiles ==
    {f \in UNION {{[columns |-> cols, rows |-> rs] : rs \in SeqsUpTo(LoadPool(cols), MaxLoadRows)} :
                     cols \in {CanonicalCols, LegacyCols, BothDateCols}} :
        Usable(f)}

\* sheets in the canonical naming that lack one of the columns
ColumnFiles ==
    {f \in UNION {{[columns |-> CanonicalCols \ {c}, rows |-> rs] :
                       rs \in SeqsUpTo(RowPool(CanonicalCols \ {c}), MaxColumnRows)} :
                     c \in CanonicalCols} :
        Usable(f)}

\* the contents the file at DATA_PATH can be given by a modification
CacheFiles ==
    {f \in {[columns |-> CanonicalCols, rows |-> rs] :
                rs \in SeqsUpTo(RowPool(CanonicalCols), MaxCacheRows)} :
        Usable(f)}

ProductFiles ==
    {[columns |-> CanonicalCols, rows |-> ProductRows(high, d)] :
        high \in {h \in SUBSET (1..NumProducts) : Cardinality(h) <= 2}, d \in BOOLEAN}

\* ------------------------------------------------------------------------
\* State of one script run
\* ------------------------------------------------------------------------
VARIABLES
    file,               \* the spreadsheet at DATA_PATH
    pc,                 \* "load", "sidebar", "filter", "render", "done", "error"
    err,                \* the exception that ended the run, "" if none
    df,                 \* the frame load_data returned
    region_list, selected_region,
    retailer_list, selected_retailer,
    state_list, selected_state,
    date_range,         \* [kind: "none" | "tuple" | "date", dates: the dates delivered]
    df_filtered,
    total_sales, total_units, total_orders,
    avg_order_value,    \* the quotient as [num, den]
    data_retailer, result_time, result_state, prod_data, method_data, treemap,
    notices,            \* the st.info / st.warning notes shown in place of a chart
    cache,              \* the st.cache_data entry of load_data(DATA_PATH); its key
                        \* is the path argument; source records the file
                        \* contents the value was read from and is never consulted
    read_file           \* has this run read the spreadsheet (pd.read_excel)?

vars ==
    <<file, pc, err, df, region_list, selected_region, retailer_list, selected_retailer,
      state_list, selected_state, date_range, df_filtered, total_sales, total_units,
      total_orders, avg_order_value, data_retailer, result_time, result_state,
      prod_data, method_data, treemap, notices, cache, read_file>>

sidebarVars ==
    <<region_list, selected_region, retailer_list, selected_retailer,
      state_list, selected_state, date_range>>

renderVars ==
    <<total_sales, total_units, total_orders, avg_order_value, data_retailer,
      result_time, result_state, prod_data, method_data, treemap, notices>>

NoDateRange == [kind |-> "none", dates |-> << >>]
NoSummary == [available |-> FALSE, rows |-> << >>]
NoQuotient == [num |-> 0, den |-> 1]
NoCache == [filled |-> FALSE, source |-> EmptyFrame, value |-> EmptyFrame]

Start(f) ==
    /\ file = f
    /\ pc = "load"
    /\ err = ""
    /\ df = EmptyFrame
    /\ region_list = {} /\ selected_region = {}
    /\ retailer_list = {} /\ selected_retailer = {}
    /\ state_list = {} /\ selected_state = {}
    /\ date_range = NoDateRange
    /\ df_filtered = EmptyFrame
    /\ total_sales = 0 /\ total_units = 0 /\ total_orders = 0
    /\ avg_order_value = NoQuotient
    /\ data_retailer = NoSummary /\ result_time = NoSummary
    /\ result_state = NoSummary /\ prod_data = NoSummary
    /\ method_data = NoSummary /\ treemap = NoSummary
    /\ notices = {}
    /\ cache = NoCache
    /\ read_file = FALSE

Init == \E f \in MainFiles : Start(f)

InitLoad == \E f \in LoadFiles : Start(f)

InitProducts == \E f \in ProductFiles : Start(f)

InitColumns == \E f \in ColumnFiles : Start(f)

InitCache == \E f \in CacheFiles : Start(f)

\* ------------------------------------------------------------------------
\* df = load_data(DATA_PATH)
\* ------------------------------------------------------------------------
\* @st.cache_data: the entry is looked up by the argument, the path, which
\* never changes; a hit returns a copy of the stored frame without running
\* the function, a raise stores nothing
LoadData ==
    /\ pc = "load"
    /\ IF cache.filled
       THEN /\ pc' = "sidebar"
            /\ err' = err
            /\ df' = cache.value
            /\ cache' = cache
            /\ read_file' = FALSE
       ELSE IF LoadRaises(file)
       THEN /\ pc' = "error"
            /\ err' = "ValueError"
            /\ df' = df
            /\ cache' = cache
            /\ read_file' = TRUE
       ELSE /\ pc' = "sidebar"
            /\ err' = err
            /\ df' = load_data(file)
            /\ cache' = [filled |-> TRUE, source |-> file, value |-> load_data(file)]
            /\ read_file' = TRUE
    /\ UNCHANGED <<file, sidebarVars, df_filtered, renderVars>>

\* ------------------------------------------------------------------------
\* Sidebar filters
\* ------------------------------------------------------------------------
OptionList(frame, col) == IF col \in frame.columns THEN UniqueValues(frame, col) ELSE {}

ValidDays(frame) ==
    {DateOf(frame.rows[i]["InvoiceDate"]) :
        i \in {j \in 1..Len(frame.rows) : frame.rows[j]["InvoiceDate"] # NaT}}

\* what st.date_input can hand back for a range value: a tuple of no, one
\* or two dates (start <= end), all within [min_date, max_date]; a bare
\* date is what the script's else branch expects.  The user's picks are
\* drawn from the days that occur in the data.
DateInputs(frame) ==
    LET days == ValidDays(frame)
    IN {[kind |-> "tuple", dates |-> << >>]}
       \cup {[kind |-> "tuple", dates |-> <<a>>] : a \in days}
       \cup {[kind |-> "tuple", dates |-> <<p[1], p[2]>>] :
                p \in {q \in days \X days : q[1] <= q[2]}}
       \cup {[kind |-> "date", dates |-> <<a>>] : a \in days}

SidebarFilters ==
    /\ pc = "sidebar"
    /\ region_list' = OptionList(df, "Region")
    /\ selected_region' \in SUBSET region_list'
    /\ retailer_list' = OptionList(df, "Retailer")
    /\ selected_retailer' \in SUBSET retailer_list'
    /\ state_list' = OptionList(df, "State")
    /\ selected_state' \in SUBSET state_list'
    /\ IF "InvoiceDate" \in df.columns
       THEN date_range' \in DateInputs(df)
       ELSE date_range' = NoDateRange
    /\ pc' = "filter"
    /\ UNCHANGED <<file, err, df, df_filtered, renderVars, cache, read_file>>

\* ------------------------------------------------------------------------
\* Apply filters
\* ------------------------------------------------------------------------
Criteria ==
    [region_list |-> region_list, selected_region |-> selected_region,
     retailer_list |-> retailer_list, selected_retailer |-> selected_retailer,
     state_list |-> state_list, selected_state |-> selected_state,
     date_range |-> date_range]

\* date_range[1] on a tuple shorter than two (date_range[0] on an empty one)
DateFilterRaises(frame, c) ==
    /\ c.date_range.kind # "none"
    /\ "InvoiceDate" \in frame.columns
    /\ c.date_range.kind = "tuple"
    /\ Len(c.date_range.dates) < 2

MembershipFilter(rows, col, list, selected) ==
    IF list # {} THEN IsinFilter(rows, col, selected) ELSE rows

DateFilter(frame, rows, c) ==
    IF c.date_range.kind # "none" /\ "InvoiceDate" \in frame.columns
    THEN LET start_date == Midnight(c.date_range.dates[1])
             end_date == IF c.date_range.kind = "tuple"
                         THEN Midnight(c.date_range.dates[2]) + Midnight(1)
                         ELSE start_date + Midnight(1)
         IN BetweenFilter(rows, start_date, end_date)
    ELSE rows

MembershipFilters(frame, c) ==
    LET r1 == MembershipFilter(frame.rows, "Region", c.region_list, c.selected_region)
        r2 == MembershipFilter(r1, "Retailer", c.retailer_list, c.selected_retailer)
    IN MembershipFilter(r2, "State", c.state_list, c.selected_state)

\* lines 205-226 on a frame, when they do not raise
FilterFrame(frame, c) ==
    [columns |-> frame.columns,
     rows |-> DateFilter(frame, MembershipFilters(frame, c), c)]

\* the filters applied to df itself instead of to a copy
ApplyFiltersInPlace ==
    /\ pc = "filter"
    /\ IF DateFilterRaises(df, Criteria)
       THEN /\ pc' = "error"
            /\ err' = "IndexError"
            /\ df_filtered' = [columns |-> df.columns,
                               rows |-> MembershipFilters(df, Criteria)]
       ELSE /\ pc' = "render"
            /\ err' = err
            /\ df_filtered' = FilterFrame(df, Criteria)
    /\ df' = df_filtered'
    /\ UNCHANGED <<file, sidebarVars, renderVars, cache, read_file>>

ApplyFilters ==
    /\ pc = "filter"
    /\ IF DateFilterRaises(df, Criteria)
       THEN /\ pc' = "error"
            /\ err' = "IndexError"
            /\ df_filtered' = [columns |-> df.columns,
                               rows |-> MembershipFilters(df, Criteria)]
       ELSE /\ pc' = "render"
            /\ err' = err
            /\ df_filtered' = FilterFrame(df, Criteria)
    /\ UNCHANGED <<file, df, sidebarVars, renderVars, cache, read_file>>

\* ------------------------------------------------------------------------
\* KPI cards and the six summaries
\* ------------------------------------------------------------------------
ColumnSum(frame, col) ==
    IF col \in frame.columns
    THEN SeqSum([i \in 1..Len(frame.rows) |-> frame.rows[i][col]])
    ELSE 0

\* total_sales / total_orders without the guard
QuotientUnguarded(num, den) == [num |-> num, den |-> den]

\* total_sales / total_orders if total_orders > 0 else 0
Quotient(num, den) == IF den > 0 THEN [num |-> num, den |-> den] ELSE NoQuotient

Summary(frame, needed, rows) ==
    IF needed \subseteq frame.columns
    THEN [available |-> TRUE, rows |-> rows]
    ELSE NoSummary

\* the else branches of a chart section: st.info when a needed column is
\* absent, st.warning when the summary is empty
SectionNotice(section, summary) ==
    IF ~summary.available THEN {<<section, "unavailable">>}
    ELSE IF summary.rows = << >> THEN {<<section, "no data">>}
    ELSE {}

RetailerSummary(frame, tiesReversed) ==
    SortValuesDesc(GroupBy1(frame.rows, "Retailer", {"TotalSales"}), "TotalSales", tiesReversed)

MonthlySummary(frame) ==
    SortValuesText(GroupBy1(frame.rows, "Month_Year", {"TotalSales"}), "Month_Year")

StateSummary(frame, tiesReversed) ==
    SortValuesDesc(GroupBy1(frame.rows, "State", {"TotalSales", "UnitsSold"}),
                   "TotalSales", tiesReversed)

ProductSummary(frame, tiesReversed) ==
    HeadN(SortValuesDesc(GroupBy1(frame.rows, "Product", {"TotalSales"}),
                         "TotalSales", tiesReversed), 10)

MethodSummary(frame) == GroupBy1(frame.rows, "SalesMethod", {"TotalSales"})

RegionCitySummary(frame) == GroupBy2(frame.rows, "Region", "City", "TotalSales")

Render ==
    /\ pc = "render"
    /\ total_sales' = ColumnSum(df_filtered, "TotalSales")
    /\ total_units' = ColumnSum(df_filtered, "UnitsSold")
    /\ total_orders' = Len(df_filtered.rows)
    /\ avg_order_value' = Quotient(total_sales', total_orders')
    /\ \E t1 \in BOOLEAN :
          data_retailer' = Summary(df_filtered, {"Retailer", "TotalSales"},
                                   RetailerSummary(df_filtered, t1))
    /\ result_time' = Summary(df_filtered, {"Month_Year", "TotalSales"},
                              MonthlySummary(df_filtered))
    /\ \E t2 \in BOOLEAN :
          result_state' = Summary(df_filtered, {"State", "TotalSales", "UnitsSold"},
                                  StateSummary(df_filtered, t2))
    /\ \E t3 \in BOOLEAN :
          prod_data' = Summary(df_filtered, {"Product", "TotalSales"},
                               ProductSummary(df_filtered, t3))
    /\ method_data' = Summary(df_filtered, {"SalesMethod", "TotalSales"},
                              MethodSummary(df_filtered))
    /\ treemap' = Summary(df_filtered, {"Region", "City", "TotalSales"},
                          RegionCitySummary(df_filtered))
    /\ notices' = SectionNotice("retailer", data_retailer')
                     \cup SectionNotice("time", result_time')
                     \cup SectionNotice("state", result_state')
                     \cup SectionNotice("treemap", treemap')
    /\ pc' = "done"
    /\ UNCHANGED <<file, err, df, sidebarVars, df_filtered, cache, read_file>>

\* a widget interaction re-executes the script from the top
Rerun ==
    /\ pc \in {"done", "error"}
    /\ pc' = "load"
    /\ err' = ""
    /\ df' = EmptyFrame
    /\ region_list' = {} /\ selected_region' = {}
    /\ retailer_list' = {} /\ selected_retailer' = {}
    /\ state_list' = {} /\ selected_state' = {}
    /\ date_range' = NoDateRange
    /\ df_filtered' = EmptyFrame
    /\ total_sales' = 0 /\ total_units' = 0 /\ total_orders' = 0
    /\ avg_order_value' = NoQuotient
    /\ data_retailer' = NoSummary /\ result_time' = NoSummary
    /\ result_state' = NoSummary /\ prod_data' = NoSummary
    /\ method_data' = NoSummary /\ treemap' = NoSummary
    /\ notices' = {}
    /\ read_file' = FALSE
    /\ UNCHANGED <<file, cache>>

\* the spreadsheet at DATA_PATH is replaced between two runs
ModifyFile ==
    /\ pc = "load"
    /\ file' \in CacheFiles \ {file}
    /\ UNCHANGED <<pc, err, df, sidebarVars, df_filtered, renderVars, cache, read_file>>

Next == LoadData \/ SidebarFilters \/ ApplyFilters \/ Render \/ Rerun

Spec == Init /\ [][Next]_vars

SpecLoad == InitLoad /\ [][Next]_vars

SpecProducts == InitProducts /\ [][Next]_vars

SpecColumns == InitColumns /\ [][Next]_vars

NextCache == Next \/ ModifyFile

SpecCache == InitCache /\ [][NextCache]_vars

\* ------------------------------------------------------------------------
\* Properties
\* ------------------------------------------------------------------------
FilterDone == pc \in {"render", "done"}

RECURSIVE SumOf(_, _)
SumOf(rows, col) ==
    IF rows = << >> THEN 0 ELSE rows[1][col] + SumOf(Tail(rows), col)

RECURSIVE IsSubsequence(_, _)
IsSubsequence(a, b) ==
    IF a = << >> THEN TRUE
    ELSE IF b = << >> THEN FALSE
    ELSE IF Head(a) = Head(b) THEN IsSubsequence(Tail(a), Tail(b))
    ELSE IsSubsequence(a, Tail(b))

NonIncreasing(rows, col) ==
    \A i \in 1..Len(rows) : \A j \in 1..Len(rows) : i < j => rows[i][col] >= rows[j][col]

\* the (year, month) a month label stands for, as months since year 0
CalendarMonth(label) ==
    LET ym == CHOOSE p \in (2023..2025) \X (1..12) : MonthLabel(p[1], p[2]) = label
    IN ym[1] * 12 + ym[2]

\* C1: the monthly trend summary is ordered ascending by the calendar order
\* of (year, month) of its Month_Year labels.
C1_MonthlyChronological ==
    (pc = "done" /\ result_time.available) =>
        \A i \in 1..Len(result_time.rows) : \A j \in 1..Len(result_time.rows) :
            i < j => CalendarMonth(result_time.rows[i]["Month_Year"])
                       < CalendarMonth(result_time.rows[j]["Month_Year"])

\* C2: for Region, Retailer and State, an empty selection places no
\* restriction on that dimension: the filtered records are those that pass
\* the other filters.
C2_EmptySelectionUnrestricted ==
    FilterDone =>
        /\ selected_region = {} =>
              df_filtered = FilterFrame(df, [Criteria EXCEPT !.region_list = {}])
        /\ selected_retailer = {} =>
              df_filtered = FilterFrame(df, [Criteria EXCEPT !.retailer_list = {}])
        /\ selected_state = {} =>
              df_filtered = FilterFrame(df, [Criteria EXCEPT !.state_list = {}])

SingleDaySelected ==
    \/ date_range.kind = "date"
    \/ date_range.kind = "tuple" /\ Len(date_range.dates) = 1

\* C3: a single-day selection d, delivered as a bare date or as a
\* one-element tuple, is filtered without error and keeps exactly the
\* records passing the membership filters whose InvoiceDate is on day d.
C3_SingleDaySelection ==
    (SingleDaySelected /\ pc \in {"render", "done", "error"}) =>
        /\ pc # "error"
        /\ df_filtered.rows =
              SelectSeq(MembershipFilters(df, Criteria),
                        LAMBDA r : r["InvoiceDate"] # NaT
                                   /\ DateOf(r["InvoiceDate"]) = date_range.dates[1])

GroupingComplete(summary) ==
    summary.available => SumOf(summary.rows, "TotalSales") = SumOf(df_filtered.rows, "TotalSales")

\* C4: for a non-empty filtered record set, the TotalSales of the rows of
\* each complete grouping (Retailer, State, SalesMethod, Region+City,
\* Month_Year) add up to the TotalSales of the filtered records.
C4_GroupingsPreserveTotal ==
    (pc = "done" /\ df_filtered.rows # << >>) =>
        /\ GroupingComplete(data_retailer)
        /\ GroupingComplete(result_state)
        /\ GroupingComplete(method_data)
        /\ GroupingComplete(treemap)
        /\ GroupingComplete(result_time)

\* C5: a record whose invoice date is missing and which passes the
\* region/retailer/state filters is kept in the filtered records (and so
\* counted by the KPIs and the non-date summaries) and is left out of the
\* monthly summary.
C5_MissingDateKeptOutsideTrend ==
    pc = "done" =>
        LET passing == SelectSeq(MembershipFilters(df, Criteria),
                                 LAMBDA r : r["InvoiceDate"] = NaT)
            kept == SelectSeq(df_filtered.rows, LAMBDA r : r["InvoiceDate"] = NaT)
        IN /\ kept = passing
           /\ total_orders >= Len(passing)
           /\ total_sales >= SumOf(passing, "TotalSales")
           /\ \A i \in 1..Len(result_time.rows) : result_time.rows[i]["Month_Year"] # NaN

\* C6: load_data never fails on an unparseable date: under every column
\* naming convention it returns all rows with each unparseable date turned
\* into a missing value, and with both columns present InvoiceDate comes
\* from the canonical column.
C6_LenientDateLoad ==
    pc # "load" =>
        /\ err # "ValueError"
        /\ Len(df.rows) = Len(file.rows)
        /\ \A i \in 1..Len(df.rows) :
              LET cell == IF "InvoiceDate" \in file.columns
                          THEN file.rows[i]["InvoiceDate"]
                          ELSE file.rows[i]["Invoice Date"]
              IN df.rows[i]["InvoiceDate"] = (IF cell = BadDate THEN NaT ELSE cell)

EmptySummaries ==
    /\ data_retailer.rows = << >> /\ result_time.rows = << >>
    /\ result_state.rows = << >> /\ prod_data.rows = << >>
    /\ method_data.rows = << >> /\ treemap.rows = << >>

\* C7: when the filtered record set is empty, the run goes on to its end
\* without an error, every summary is empty and the average order value is
\* 0, not a division by zero.
C7_EmptyFilteredSet ==
    [][(pc = "render" /\ df_filtered.rows = << >>) =>
          (/\ pc' = "done"
           /\ err' = ""
           /\ EmptySummaries'
           /\ avg_order_value'.den # 0
           /\ avg_order_value'.num = 0
           /\ total_sales' = 0 /\ total_orders' = 0)]_vars

C7_Witness ==
    /\ pc = "done"
    /\ err = ""
    /\ df.rows # << >>
    /\ df_filtered.rows = << >>
    /\ selected_region # {}

GroupTotal(col, key) ==
    SumOf(SelectSeq(df_filtered.rows, LAMBDA r : r[col] = key), "TotalSales")

\* position of the first filtered record of a product
FirstRecord(product) ==
    CHOOSE i \in 1..Len(df_filtered.rows) :
        /\ df_filtered.rows[i]["Product"] = product
        /\ \A j \in 1..(i - 1) : df_filtered.rows[j]["Product"] # product

ProductsShown == {prod_data.rows[k]["Product"] : k \in 1..Len(prod_data.rows)}

ProductTopTen ==
    /\ Len(prod_data.rows) <= 10
    /\ NonIncreasing(prod_data.rows, "TotalSales")
    /\ \A k \in 1..Len(prod_data.rows) :
          /\ prod_data.rows[k]["Product"] \in UniqueValues(df_filtered, "Product")
          /\ prod_data.rows[k]["TotalSales"] = GroupTotal("Product", prod_data.rows[k]["Product"])
    /\ \A p \in UniqueValues(df_filtered, "Product") \ ProductsShown :
          \A k \in 1..Len(prod_data.rows) :
              GroupTotal("Product", p) <= prod_data.rows[k]["TotalSales"]

\* C8 (as stated): the product summary has at most 10 rows in non-increasing
\* order of summed TotalSales, no product left out outsells a product shown,
\* and products with equal sums appear in the order of their first records.
C8_ProductTopTenStable ==
    (pc = "done" /\ prod_data.available) =>
        /\ ProductTopTen
        /\ \A i \in 1..Len(prod_data.rows) : \A j \in 1..Len(prod_data.rows) :
              (i < j /\ prod_data.rows[i]["TotalSales"] = prod_data.rows[j]["TotalSales"])
                  => FirstRecord(prod_data.rows[i]["Product"])
                       < FirstRecord(prod_data.rows[j]["Product"])

\* C8 (amended): the product summary has at most 10 rows in non-increasing
\* order of summed TotalSales, each row carries a product of the filtered
\* records with its sum, and no product left out outsells a product shown.
C8_ProductTopTen ==
    (pc = "done" /\ prod_data.available) => ProductTopTen

C8_Witness ==
    /\ pc = "done"
    /\ prod_data.available
    /\ Cardinality(UniqueValues(df_filtered, "Product")) > 10
    /\ Len(prod_data.rows) = 10
    /\ prod_data.rows[1]["TotalSales"] > prod_data.rows[10]["TotalSales"]

EveryOptionSelected ==
    /\ selected_retailer = retailer_list
    /\ selected_state = state_list
    /\ date_range.kind = "tuple"
    /\ Len(date_range.dates) = 2
    /\ \A d \in ValidDays(df) : date_range.dates[1] <= d /\ d <= date_range.dates[2]

RetailerRow(retailer, sales) == [Retailer |-> retailer, TotalSales |-> sales]

\* C9: the retailer summary has one row per distinct Retailer of the
\* filtered records, carrying the sum of that retailer's TotalSales, in
\* non-increasing order of TotalSales; records (A,100,West), (A,50,East),
\* (B,200,West) give [(B,200),(A,150)], and [(B,200),(A,100)] under Region
\* in {West}.
C9_RetailerSummary ==
    (pc = "done" /\ data_retailer.available) =>
        /\ {data_retailer.rows[k]["Retailer"] : k \in 1..Len(data_retailer.rows)}
              = UniqueValues(df_filtered, "Retailer")
        /\ Len(data_retailer.rows) = Cardinality(UniqueValues(df_filtered, "Retailer"))
        /\ \A k \in 1..Len(data_retailer.rows) :
              data_retailer.rows[k]["TotalSales"]
                  = GroupTotal("Retailer", data_retailer.rows[k]["Retailer"])
        /\ NonIncreasing(data_retailer.rows, "TotalSales")
        /\ (file.rows = ExampleRows /\ EveryOptionSelected) =>
              /\ selected_region = {West, East} =>
                    data_retailer.rows = <<RetailerRow(RetailerB, 200), RetailerRow(RetailerA, 150)>>
              /\ selected_region = {West} =>
                    data_retailer.rows = <<RetailerRow(RetailerB, 200), RetailerRow(RetailerA, 100)>>

C9_Witness ==
    /\ pc = "done"
    /\ file.rows = ExampleRows
    /\ EveryOptionSelected
    /\ selected_region = {West}
    /\ Len(df_filtered.rows) = 2
    /\ data_retailer.rows = <<RetailerRow(RetailerB, 200), RetailerRow(RetailerA, 100)>>

\* C10: filtering is idempotent and non-mutating: applying the filter steps
\* with the same criteria to the filtered records returns them unchanged,
\* the filtered records are a subset of the loaded ones, and the loaded
\* records are what load_data returned.
C10_FilterIdempotent ==
    FilterDone =>
        /\ ~DateFilterRaises(df_filtered, Criteria)
        /\ FilterFrame(df_filtered, Criteria) = df_filtered
        /\ IsSubsequence(df_filtered.rows, df.rows)
        /\ df = load_data(file)

C10_Witness ==
    /\ pc = "done"
    /\ Len(df_filtered.rows) > 0
    /\ Len(df_filtered.rows) < Len(df.rows)
    /\ FilterFrame(df_filtered, Criteria) = df_filtered

\* an aggregation whose needed columns are not all present is not computed
\* and a note says so; one whose columns are present is computed
Degrades(section, needed, summary, computed) ==
    IF needed \subseteq df.columns
    THEN summary.available /\ summary.rows \in computed
    ELSE ~summary.available /\ <<section, "unavailable">> \in notices

\* the filter on a dimension whose column is absent is skipped
SkippedIfAbsent(col, list) == col \notin df.columns => list = {}

\* C11: on a dataset that lacks one of the columns no step raises on that
\* account (the one raise left is the short date tuple of C3), the filter
\* on an absent dimension is skipped, every aggregation that needs the
\* absent column reports that it is unavailable and the other aggregations
\* are computed from the filtered records.
C11_AbsentColumnDegrades ==
    /\ pc = "error" => err = "IndexError"
    /\ FilterDone =>
          /\ SkippedIfAbsent("Region", region_list)
          /\ SkippedIfAbsent("Retailer", retailer_list)
          /\ SkippedIfAbsent("State", state_list)
          /\ "InvoiceDate" \notin df.columns => date_range = NoDateRange
          /\ df_filtered = FilterFrame(df, Criteria)
    /\ pc = "done" =>
          /\ "TotalSales" \notin df.columns => total_sales = 0
          /\ "UnitsSold" \notin df.columns => total_units = 0
          /\ total_orders = Len(df_filtered.rows)
          /\ Degrades("retailer", {"Retailer", "TotalSales"}, data_retailer,
                      {RetailerSummary(df_filtered, t) : t \in BOOLEAN})
          /\ Degrades("time", {"Month_Year", "TotalSales"}, result_time,
                      {MonthlySummary(df_filtered)})
          /\ Degrades("state", {"State", "TotalSales", "UnitsSold"}, result_state,
                      {StateSummary(df_filtered, t) : t \in BOOLEAN})
          /\ Degrades("treemap", {"Region", "City", "TotalSales"}, treemap,
                      {RegionCitySummary(df_filtered)})
          /\ Degrades("product", {"Product", "TotalSales"}, prod_data,
                      {ProductSummary(df_filtered, t) : t \in BOOLEAN})
          /\ Degrades("method", {"SalesMethod", "TotalSales"}, method_data,
                      {MethodSummary(df_filtered)})

\* C12: the loaded records are cached by path and modification time: a run
\* that finds the file unchanged since it was cached reuses the cached
\* records without reading the file, and every run that loads returns the
\* records of the file as it is now, never those of an earlier version.
C12_CacheFollowsFile ==
    [][(pc = "load" /\ pc' = "sidebar") =>
          /\ df' = load_data(file)
          /\ (cache.filled /\ cache.source = file) =>
                (~read_file' /\ df' = cache.value /\ cache' = cache)]_vars

====
